---- MODULE Spec2Model ----
(***************************************************************************)
(* Model of backend/main.py: the live transcription path (AudioProcessor   *)
(* inside websocket_endpoint) and the batch paths (process_file behind     *)
(* upload_file, process_audio_with_silence_detection behind extract_audio).*)
(*                                                                         *)
(* Samples are not stored by value.  A sample is identified by the block   *)
(* it arrived in and its offset in that block; an int16 array is a         *)
(* sequence of runs [blk, lo, hi) of such samples.  Concatenation and      *)
(* slicing of arrays are computed on runs, so the program's thresholds     *)
(* (80000 and 40000 samples) keep their real values.                       *)
(***************************************************************************)
EXTENDS Integers, Sequences, FiniteSets, TLC

\* ------------------------------------------------------------------ bounds

\* Blocks a client sends on one connection, of any of the sizes BlockBytes.
MaxBlocks == 3
\* Blocks of a client that streams uniform 4000-sample blocks.
ScenarioBlocks == 30

\* Byte lengths of the binary messages a client sends (2 bytes per sample;
\* 7999 is an odd length, which is not a whole number of int16 samples).
BlockBytes == {0, 7999, 8000, 80000, 160000, 200000}

\* Texts the recognition service returns.
Texts == {"", "a", "b"}

\* -------------------------------------------------------- program constants

\* self.min_samples_to_process
min_samples_to_process == 80000
\* the literal 40000 of _process_buffer's finally clause
context_samples == 40000
\* np.int16: bytes per sample
sampwidth == 2

\* The uniform block of a streaming client: 4000 samples.
ScenarioBytes == 4000 * sampwidth

\* ------------------------------------------------------------------- state

VARIABLES
    \* AudioProcessor fields
    buffer,             \* self.buffer: sequence of arrays (each a sequence of runs)
    samples_collected,  \* self.samples_collected
    last_text,          \* self.last_text
    chunk_count,        \* self.chunk_count
    \* websocket_endpoint locals and the connection
    chunks_received,    \* chunks_received
    conn,               \* "open" while the receive loop runs, "failing" while
                        \* it awaits send_text of the error event, "closed" after
    sent,               \* the messages handed to websocket.send_text, in order
    \* the environment's record of the connection
    received,           \* byte length of every binary message received, in order
    recognized,         \* the audio of every recognize_google call, in order
    outcomes            \* the outcome of every recognize_google call, in order

streamVars == <<buffer, samples_collected, last_text, chunk_count,
                chunks_received, conn, sent, received, recognized, outcomes>>

VARIABLES
    \* one batch request
    request,            \* "upload" (upload_file), "extract" (extract_audio), "off"
    pc,                 \* where the request's own thread is
    total_duration_ms,  \* len(audio) in process_file
    chunk_duration_ms,  \* process_file's parameter
    cpu_count,          \* os.cpu_count()
    chunks,             \* process_file: the windows cut, in order
    max_workers,        \* the executor's worker limit
    num_threads,        \* worker threads the executor has started
    work_queue,         \* submitted chunks no worker has taken yet, FIFO
    running,            \* chunks whose process_audio_chunk call is running
    futures,            \* per chunk: its future
    next_future,        \* how many futures the gathering loop has consumed
    texts,              \* process_file's texts / the segmenter's full_text
    segments,           \* extract: the durations (ms) split_on_silence returned
    result,             \* what the batch function returned or raised
    response,           \* what the endpoint returned or raised
    \* the environment's record of the request
    recog_calls,        \* the unit of every recognize_google call, in order
    unit_outcomes,      \* the outcome of every recognize_google call, in order
    completed           \* the chunks in the order their calls completed

batchVars == <<request, pc, total_duration_ms, chunk_duration_ms, cpu_count,
               chunks, max_workers, num_threads, work_queue, running, futures,
               next_future, texts, segments, result, response, recog_calls,
               unit_outcomes, completed>>

VARIABLES
    \* several live connections
    processors,         \* the AudioProcessor objects: per object its buffer,
                        \* samples_collected, last_text and chunk_count
    live,               \* per connection: its websocket_endpoint call is running
    breaking,           \* per connection: its loop awaits send_text of the
                        \* error event and will break
    conn_received,      \* per connection: chunks_received
    conn_sent,          \* per connection: the messages sent to its client
    acting              \* the connection whose handler ran last, 0 at the start

multiVars == <<processors, live, breaking, conn_received, conn_sent, acting>>

vars == <<streamVars, batchVars, multiVars>>

\* ----------------------------------------------------------------- arrays

\* Number of samples of a run.
RunLen(r) == r.hi - r.lo

\* len(array)
RECURSIVE ArrayLen(_)
ArrayLen(a) == IF a = <<>> THEN 0 ELSE RunLen(Head(a)) + ArrayLen(Tail(a))

\* np.concatenate(list of arrays)
RECURSIVE Concatenate(_)
Concatenate(arrays) ==
    IF arrays = <<>> THEN <<>> ELSE Head(arrays) \o Concatenate(Tail(arrays))

\* array[-k:] for k > 0: the last k samples, or the whole array when it has
\* no more than k.
RECURSIVE LastSamples(_, _)
LastSamples(a, k) ==
    IF a = <<>> \/ k <= 0 THEN <<>>
    ELSE LET r == a[Len(a)]
             n == RunLen(r)
         IN IF n >= k
            THEN <<[blk |-> r.blk, lo |-> r.hi - k, hi |-> r.hi]>>
            ELSE LastSamples(SubSeq(a, 1, Len(a) - 1), k - n) \o <<r>>

\* np.frombuffer(audio_data, dtype=np.int16) for the message number blk of
\* nbytes bytes (nbytes even): its nbytes/2 samples.
FromBuffer(blk, nbytes) ==
    IF nbytes \div sampwidth = 0 THEN <<>>
    ELSE <<[blk |-> blk, lo |-> 0, hi |-> nbytes \div sampwidth]>>

\* np.frombuffer raises ValueError when the buffer is no whole number of
\* int16 elements.
FromBufferRaises(nbytes) == nbytes % sampwidth # 0

\* ------------------------------------------------- recognition outcomes

\* recognize_google returns a text, raises UnknownValueError, raises
\* RequestError, or raises something else.
Outcomes ==
    [kind : {"text"}, text : Texts]
    \cup {[kind |-> "unknown_value", text |-> ""],
          [kind |-> "request_error", text |-> ""],
          [kind |-> "exception", text |-> ""]}

\* ---------------------------------------------------------- AudioProcessor

\* ShouldEmit without the comparison with the last text.
ShouldEmitNoDedup(text, last) == text # ""

\* The dedup test of _process_buffer: `if text and text != self.last_text`.
ShouldEmit(text, last) == text # "" /\ text # last

\* What _process_buffer returns for a recognition outcome: the text, or
\* None (modelled as "") when nothing is to be sent.
ProcessResult(out, last) ==
    IF out.kind = "text" /\ ShouldEmit(out.text, last) THEN out.text ELSE ""

\* NewLastText forgetting the last text when a chunk yields nothing to send.
NewLastTextForgets(out, last) ==
    IF out.kind = "text" /\ ShouldEmit(out.text, last) THEN out.text ELSE ""

\* self.last_text after _process_buffer.
NewLastText(out, last) ==
    IF out.kind = "text" /\ ShouldEmit(out.text, last) THEN out.text ELSE last

\* array[:k]: the first k samples.
RECURSIVE FirstSamples(_, _)
FirstSamples(a, k) ==
    IF a = <<>> \/ k <= 0 THEN <<>>
    ELSE LET r == Head(a)
             n == RunLen(r)
         IN IF n >= k
            THEN <<[blk |-> r.blk, lo |-> r.lo, hi |-> r.lo + k]>>
            ELSE <<r>> \o FirstSamples(Tail(a), k - n)

\* KeptBuffer keeping no context.
KeptBufferCleared(buf, count) == <<>>

\* KeptBuffer slicing [:40000] instead of [-40000:].
KeptBufferHead(buf, count) ==
    IF count > context_samples
    THEN <<FirstSamples(Concatenate(buf), context_samples)>>
    ELSE <<>>

\* The finally clause of _process_buffer: the buffer kept for context.  With
\* no more than context_samples samples the buffer is cleared; add_audio
\* processes the buffer only at min_samples_to_process or more, so that
\* branch is not taken on a connection.
KeptBuffer(buf, count) ==
    IF count > context_samples
    THEN <<LastSamples(Concatenate(buf), context_samples)>>
    ELSE <<>>

\* KeptCount counting the samples dropped instead of the samples kept.
KeptCountDropped(buf, count) ==
    IF count > context_samples THEN count - context_samples ELSE 0

\* self.samples_collected after the finally clause.
KeptCount(buf, count) ==
    IF count > context_samples
    THEN ArrayLen(LastSamples(Concatenate(buf), context_samples))
    ELSE 0

\* _process_buffer letting a RequestError out to the receive loop.
ProcessBufferRaisesRequestError(out) == out.kind = "request_error"

\* _process_buffer letting an UnknownValueError out to the receive loop.
ProcessBufferRaisesUnknownValue(out) == out.kind = "unknown_value"

\* Whether _process_buffer lets an exception of the recognition out to
\* add_audio and the receive loop: UnknownValueError, RequestError and any
\* other Exception are caught and logged inside it.
ProcessBufferRaises(out) == FALSE

\* EnoughAudio with a strict comparison.
EnoughAudioStrict(count) == count > min_samples_to_process

\* add_audio's test for processing the buffer.
EnoughAudio(count) == count >= min_samples_to_process

\* ------------------------------------------------------- websocket_endpoint

TextEvent(t) == [kind |-> "text", text |-> t]
ErrorEvent == [kind |-> "error", text |-> ""]

\* The connections the server can hold at once.
MaxConns == 2
Conns == 1..MaxConns

\* AudioProcessor.__init__: an empty buffer, no samples, no last text.
NewProcessor ==
    [buffer |-> <<>>, samples_collected |-> 0, last_text |-> "", chunk_count |-> 0]

\* No websocket_endpoint call is running.
NoConnections ==
    /\ processors = [p \in Conns |-> NewProcessor]
    /\ live = [c \in Conns |-> FALSE]
    /\ breaking = [c \in Conns |-> FALSE]
    /\ conn_received = [c \in Conns |-> 0]
    /\ conn_sent = [c \in Conns |-> <<>>]
    /\ acting = 0

StreamInit ==
    /\ buffer = <<>>
    /\ samples_collected = 0
    /\ last_text = ""
    /\ chunk_count = 0
    /\ chunks_received = 0
    /\ conn = "open"
    /\ sent = <<>>
    /\ received = <<>>
    /\ recognized = <<>>
    /\ outcomes = <<>>

\* One iteration of the receive loop on a binary message of nbytes bytes,
\* with recognition outcome out if the buffer is processed: receive_bytes,
\* add_audio, _process_buffer and send_text.
ReceiveBlock(nbytes, out) ==
    /\ conn = "open"
    /\ chunks_received' = chunks_received + 1
    /\ received' = Append(received, nbytes)
    /\ IF FromBufferRaises(nbytes)
       THEN \* add_audio raises: the loop sends an error event
            /\ sent' = Append(sent, ErrorEvent)
            /\ conn' = "failing"
            /\ UNCHANGED <<buffer, samples_collected, last_text, chunk_count,
                           recognized, outcomes>>
       ELSE LET chunk == FromBuffer(chunks_received + 1, nbytes)
                buf   == Append(buffer, chunk)
                count == samples_collected + ArrayLen(chunk)
            IN IF EnoughAudio(count)
               THEN /\ chunk_count' = chunk_count + 1
                    /\ recognized' = Append(recognized, Concatenate(buf))
                    /\ outcomes' = Append(outcomes, out)
                    /\ last_text' = NewLastText(out, last_text)
                    /\ buffer' = KeptBuffer(buf, count)
                    /\ samples_collected' = KeptCount(buf, count)
                    /\ IF ProcessBufferRaises(out)
                       THEN \* the loop sends an error event
                            /\ sent' = Append(sent, ErrorEvent)
                            /\ conn' = "failing"
                       ELSE /\ sent' = IF ProcessResult(out, last_text) # ""
                                       THEN Append(sent, TextEvent(ProcessResult(out, last_text)))
                                       ELSE sent
                            /\ conn' = conn
               ELSE /\ buffer' = buf
                    /\ samples_collected' = count
                    /\ UNCHANGED <<last_text, chunk_count, recognized, outcomes,
                                   sent, conn>>

\* A client sends a block of any of the sizes BlockBytes.
ClientSendsBlock ==
    /\ chunks_received < MaxBlocks
    /\ \E nbytes \in BlockBytes, out \in Outcomes : ReceiveBlock(nbytes, out)
    /\ UNCHANGED <<batchVars, multiVars>>

\* A client streams uniform 4000-sample blocks.
ClientStreamsBlock ==
    /\ chunks_received < ScenarioBlocks
    /\ \A i \in 1..Len(received) : received[i] = ScenarioBytes
    /\ \E out \in Outcomes : ReceiveBlock(ScenarioBytes, out)
    /\ UNCHANGED <<batchVars, multiVars>>

\* receive_bytes raises (the client disconnected, or sent a text frame), or
\* the send_text of a text raises: the loop sends an error event.
ReceiveFails ==
    /\ conn = "open"
    /\ sent' = Append(sent, ErrorEvent)
    /\ conn' = "failing"
    /\ UNCHANGED <<buffer, samples_collected, last_text, chunk_count,
                   chunks_received, received, recognized, outcomes>>
    /\ UNCHANGED <<batchVars, multiVars>>

\* The await of the error event's send_text returns or raises: the loop
\* breaks and the handler ends.
LoopBreaks ==
    /\ conn = "failing"
    /\ conn' = "closed"
    /\ UNCHANGED <<buffer, samples_collected, last_text, chunk_count,
                   chunks_received, received, recognized, outcomes, sent>>
    /\ UNCHANGED <<batchVars, multiVars>>

\* No batch request is in progress.
NoBatch ==
    /\ request = "off"
    /\ pc = "off"
    /\ total_duration_ms = 0
    /\ chunk_duration_ms = 0
    /\ cpu_count = 0
    /\ chunks = <<>>
    /\ max_workers = 0
    /\ num_threads = 0
    /\ work_queue = <<>>
    /\ running = {}
    /\ futures = <<>>
    /\ next_future = 0
    /\ texts = <<>>
    /\ segments = <<>>
    /\ result = [kind |-> "none", text |-> ""]
    /\ response = [kind |-> "none", text |-> ""]
    /\ recog_calls = <<>>
    /\ unit_outcomes = <<>>
    /\ completed = <<>>

Init == StreamInit /\ NoBatch /\ NoConnections

Next ==
    \/ ClientSendsBlock
    \/ ClientStreamsBlock
    \/ ReceiveFails
    \/ LoopBreaks

Spec == Init /\ [][Next]_vars

\* ------------------------------------------------------------ live claims

\* Total number of samples held in a list of arrays.
RECURSIVE HeldSamples(_)
HeldSamples(arrays) ==
    IF arrays = <<>> THEN 0 ELSE ArrayLen(Head(arrays)) + HeldSamples(Tail(arrays))

\* Every sample of the first n messages of a connection, in arrival order
\* (messages are all of even length while the connection is open).
RECURSIVE StreamOf(_, _)
StreamOf(rcv, n) ==
    IF n = 0 THEN <<>> ELSE StreamOf(rcv, n - 1) \o FromBuffer(n, rcv[n])

\* t is the trailing k samples of array c.
IsTailOf(t, c, k) ==
    /\ ArrayLen(t) = k
    /\ \/ k = 0 /\ t = <<>>
       \/ \E j \in 1..Len(c) :
            LET rest == SubSeq(c, j + 1, Len(c))
                part == k - ArrayLen(rest)
            IN /\ part > 0
               /\ part <= RunLen(c[j])
               /\ t = <<[blk |-> c[j].blk, lo |-> c[j].hi - part, hi |-> c[j].hi]>>
                        \o rest

\* The step is an add_audio call that returned (the message was a whole
\* number of samples).
AddAudioStep ==
    /\ Len(received') = Len(received) + 1
    /\ ~FromBufferRaises(received'[Len(received')])

\* The step handed a chunk to recognition.
EmissionStep == Len(recognized') = Len(recognized) + 1

\* C1: after any sequence of add_audio calls, whatever the recognition
\* outcomes, samples_collected equals the total number of samples held in
\* the arrays of buffer.
C1_CountMatchesBuffer == samples_collected = HeldSamples(buffer)

\* C1 witness: a chunk was emitted, the tail was kept and a further block
\* was appended to it.
C1_Witness ==
    /\ chunk_count >= 1
    /\ Len(buffer) >= 2
    /\ samples_collected > context_samples

\* C2: add_audio appends the block and hands a chunk to recognition if and
\* only if the count after the append is at least min_samples_to_process;
\* the chunk is the full pending buffer, which is the trailing samples of
\* the stream in arrival order; below the threshold nothing is recognized
\* or sent and nothing changes except the appended block.
C2_EmitIffThreshold ==
    [][AddAudioStep =>
        LET nbytes == received'[Len(received')]
            block  == FromBuffer(Len(received'), nbytes)
            total  == samples_collected + nbytes \div sampwidth
        IN /\ Len(recognized') \in {Len(recognized), Len(recognized) + 1}
           /\ EmissionStep <=> total >= min_samples_to_process
           /\ EmissionStep =>
                /\ recognized' = Append(recognized, recognized'[Len(recognized')])
                /\ ArrayLen(recognized'[Len(recognized')]) = total
                /\ IsTailOf(recognized'[Len(recognized')],
                            StreamOf(received', Len(received')), total)
           /\ ~EmissionStep =>
                /\ buffer' = Append(buffer, block)
                /\ samples_collected' = total
                /\ UNCHANGED <<last_text, chunk_count, sent, recognized,
                               outcomes, conn>>
    ]_vars

\* C2 witness: a chunk of exactly min_samples_to_process samples was handed
\* off, and a later block stayed below the threshold.
C2_Witness ==
    /\ Len(recognized) = 1
    /\ ArrayLen(recognized[1]) = min_samples_to_process
    /\ Len(buffer) = 2
    /\ samples_collected = context_samples + 4000

\* C3: after every chunk emission, whatever the recognition outcome, the
\* buffer holds exactly the trailing context_samples samples of the emitted
\* chunk, or the whole chunk when it is no longer than that, and the count
\* is back below min_samples_to_process.
C3_KeepsTail ==
    [][EmissionStep =>
        LET chunk == recognized'[Len(recognized')]
        IN /\ IF ArrayLen(chunk) > context_samples
              THEN IsTailOf(Concatenate(buffer'), chunk, context_samples)
              ELSE Concatenate(buffer') = chunk
           /\ samples_collected' < min_samples_to_process
    ]_vars

\* C3 witness: 20 blocks of 4000 samples emitted one chunk, whose
\* recognition raised, and left exactly 40000 samples.
C3_Witness ==
    /\ Len(received) = 20
    /\ \A i \in 1..20 : received[i] = ScenarioBytes
    /\ Len(recognized) = 1
    /\ outcomes[1].kind = "request_error"
    /\ samples_collected = 40000
    /\ HeldSamples(buffer) = 40000

\* C4: a recognized text is sent to the client if and only if it is
\* non-empty and differs from last_text; when it is sent last_text becomes
\* that text, and otherwise last_text is unchanged and nothing is sent.
C4_ShouldEmit ==
    [][EmissionStep =>
        LET out == outcomes'[Len(outcomes')]
        IN IF out.kind = "text" /\ out.text # "" /\ out.text # last_text
           THEN /\ sent' = Append(sent, TextEvent(out.text))
                /\ last_text' = out.text
           ELSE /\ sent' = sent
                /\ last_text' = last_text
    ]_vars

\* C4 witness: the same text was recognized twice in a row, then the empty
\* text, and only the first was sent.
C4_Witness ==
    /\ Len(outcomes) = 3
    /\ outcomes[1] = [kind |-> "text", text |-> "a"]
    /\ outcomes[2] = [kind |-> "text", text |-> "a"]
    /\ outcomes[3] = [kind |-> "text", text |-> ""]
    /\ sent = <<TextEvent("a")>>
    /\ last_text = "a"

\* ===================================================================== batch

\* ------------------------------------------------------------ batch bounds

\* os.cpu_count() ranges over 1..MaxCpu.
MaxCpu == 3
\* Requests to process_file are explored when they cut at most MaxChunks chunks.
MaxChunks == 3
\* split_on_silence returns at most MaxSegments segments.
MaxSegments == 2
\* The chunker alone is explored on inputs that cut at most MaxWindows windows.
MaxWindows == 40

\* len(audio) of the files uploaded, in ms.
TotalDurations == {0, 1500, 3500, 28000, 30000, 56001}
\* chunk_duration_ms of the requests (30000 is the default).
ChunkDurations == {1500, 2000, 3000, 30000}
\* Durations (ms) of the segments split_on_silence returns.
SegmentDurations == {499, 500, 2000}

\* ------------------------------------------------ batch program constants

\* overlap_ms of process_file
overlap_ms == 2000
\* the minimum segment length of process_audio_with_silence_detection
min_segment_ms == 500

\* ------------------------------------------------------------ process_file

Min(a, b) == IF a <= b THEN a ELSE b

\* list(range(start, stop, step)) for step # 0.
RECURSIVE Range(_, _, _)
Range(start, stop, step) ==
    IF (step > 0 /\ start >= stop) \/ (step < 0 /\ start <= stop) THEN <<>>
    ELSE <<start>> \o Range(start + step, stop, step)

\* len(range(0, stop, step)) for step # 0.
RangeLen(stop, step) ==
    IF step > 0
    THEN (IF stop <= 0 THEN 0 ELSE (stop + step - 1) \div step)
    ELSE 0

\* range() raises ValueError on a zero step.
RangeRaises(step) == step = 0

\* The start_ms values of the chunking loop, leaving out the windows that
\* are cut short by the end of the audio.
WindowStartsFullOnly(total, duration) ==
    Range(0, total - duration, duration - overlap_ms)

\* The start_ms values of the chunking loop.
WindowStarts(total, duration) == Range(0, total, duration - overlap_ms)

\* The chunks of the chunking loop: audio[start_ms:end_ms] per start_ms.
Windows(total, duration) ==
    LET starts == WindowStarts(total, duration)
    IN [k \in 1..Len(starts) |->
          [start |-> starts[k], end |-> Min(starts[k] + duration, total)]]

\* The worker limit set to the number of chunks.
MaxWorkersChunkCount(cpu, n) == n

\* The worker limit never below one.
MaxWorkersAtLeastOne(cpu, n) == IF Min(cpu, n) < 1 THEN 1 ELSE Min(cpu, n)

\* max_workers=min(os.cpu_count(), len(chunks))
MaxWorkers(cpu, n) == Min(cpu, n)

\* ThreadPoolExecutor raises ValueError unless max_workers > 0.
ExecutorRaises(workers) == workers <= 0

\* The texts joined without a separator.
RECURSIVE JoinNoSpace(_)
JoinNoSpace(ts) ==
    IF ts = <<>> THEN "" ELSE Head(ts) \o JoinNoSpace(Tail(ts))

\* " ".join(ts)
RECURSIVE Join(_)
Join(ts) ==
    IF ts = <<>> THEN ""
    ELSE IF Len(ts) = 1 THEN ts[1]
    ELSE Head(ts) \o " " \o Join(Tail(ts))

\* What process_audio_chunk does with a recognition outcome: it returns the
\* text, returns "" on UnknownValueError and RequestError, and lets any
\* other exception out.
ChunkResult(out) ==
    CASE out.kind = "text" -> [state |-> "returned", text |-> out.text]
      [] out.kind \in {"unknown_value", "request_error"} ->
            [state |-> "returned", text |-> ""]
      [] OTHER -> [state |-> "raised", text |-> ""]

\* process_audio_chunk calling recognize_google again after a RequestError.
RetryOnRequestError(out) == out.kind = "request_error"

\* Whether process_audio_chunk calls recognize_google again after outcome
\* out: it makes one call and returns or raises.
RetryOn(out) == FALSE

\* future.result() returning without waiting for the call to end.
FutureDoneAlways(f) == TRUE

\* future.result() blocks until the future holds a result or an exception.
FutureDone(f) == f.state \in {"returned", "raised"}

\* The gathering loop consuming the futures in the order they completed.
NextToGatherAsCompleted(consumed, done) ==
    IF consumed < Len(done) THEN done[consumed + 1] ELSE 0

\* The future the gathering loop consumes next (`for future in futures`),
\* after `consumed` of them: the next in submission order.
NextToGather(consumed, done) == consumed + 1

\* The gathering loop keeping every text.
KeepTextAlways(text) == TRUE

\* The gathering loop's `if text:`.
KeepText(text) == text # ""

PendingFuture == [state |-> "pending", text |-> ""]
NoResult == [kind |-> "none", text |-> ""]

\* upload_file receives a file of total ms and calls process_file.
UploadInit(total, duration, cpu) ==
    /\ request = "upload"
    /\ pc = "split"
    /\ total_duration_ms = total
    /\ chunk_duration_ms = duration
    /\ cpu_count = cpu
    /\ chunks = <<>>
    /\ max_workers = 0
    /\ num_threads = 0
    /\ work_queue = <<>>
    /\ running = {}
    /\ futures = <<>>
    /\ next_future = 0
    /\ texts = <<>>
    /\ segments = <<>>
    /\ result = NoResult
    /\ response = NoResult
    /\ recog_calls = <<>>
    /\ unit_outcomes = <<>>
    /\ completed = <<>>

\* process_file raising: upload_file answers {"error": ...}.
UploadFails ==
    /\ pc' = "done"
    /\ result' = [kind |-> "raised", text |-> ""]
    /\ response' = [kind |-> "error", text |-> ""]

\* process_file up to the executor: the chunking loop and the creation of
\* the ThreadPoolExecutor.
SplitIntoChunks ==
    /\ request = "upload"
    /\ pc = "split"
    /\ IF RangeRaises(chunk_duration_ms - overlap_ms)
       THEN /\ UploadFails
            /\ UNCHANGED <<chunks, max_workers, futures>>
       ELSE LET cut == Windows(total_duration_ms, chunk_duration_ms)
                workers == MaxWorkers(cpu_count, Len(cut))
            IN /\ chunks' = cut
               /\ IF ExecutorRaises(workers)
                  THEN /\ UploadFails
                       /\ UNCHANGED <<max_workers, futures>>
                  ELSE /\ max_workers' = workers
                       /\ futures' = <<>>
                       /\ pc' = IF Len(cut) = 0 THEN "gather" ELSE "submit"
                       /\ UNCHANGED <<result, response>>
    /\ UNCHANGED <<request, total_duration_ms, chunk_duration_ms, cpu_count,
                   num_threads, work_queue, running, next_future, texts,
                   segments, recog_calls, unit_outcomes, completed>>
    /\ UNCHANGED <<streamVars, multiVars>>

\* executor.submit for the next chunk: the work item is queued and the
\* executor may start a worker thread while it has fewer than max_workers
\* (it must when it has none).
Submit ==
    /\ request = "upload"
    /\ pc = "submit"
    /\ Len(futures) < Len(chunks)
    /\ futures' = Append(futures, PendingFuture)
    /\ work_queue' = Append(work_queue, Len(futures) + 1)
    /\ \/ /\ num_threads < max_workers
          /\ num_threads' = num_threads + 1
       \/ /\ num_threads >= 1
          /\ num_threads' = num_threads
    /\ pc' = IF Len(futures) + 1 = Len(chunks) THEN "gather" ELSE "submit"
    /\ UNCHANGED <<request, total_duration_ms, chunk_duration_ms, cpu_count,
                   chunks, max_workers, running, next_future, texts, segments,
                   result, response, recog_calls, unit_outcomes, completed>>
    /\ UNCHANGED <<streamVars, multiVars>>

\* recognize_google has been called for chunk i.
Called(i) == \E k \in 1..Len(recog_calls) : recog_calls[k] = i

\* An idle worker thread takes the oldest queued work item.
WorkerStarts ==
    /\ request = "upload"
    /\ work_queue # <<>>
    /\ Cardinality(running) < num_threads
    /\ running' = running \cup {Head(work_queue)}
    /\ work_queue' = Tail(work_queue)
    /\ UNCHANGED <<request, pc, total_duration_ms, chunk_duration_ms,
                   cpu_count, chunks, max_workers, num_threads, futures,
                   next_future, texts, segments, result, response, recog_calls,
                   unit_outcomes, completed>>
    /\ UNCHANGED <<streamVars, multiVars>>

\* The worker that took chunk i sets its future running and enters
\* process_audio_chunk.
WorkerRuns ==
    /\ request = "upload"
    /\ \E i \in running :
        /\ futures[i].state = "pending"
        /\ futures' = [futures EXCEPT ![i].state = "running"]
    /\ UNCHANGED <<request, pc, total_duration_ms, chunk_duration_ms,
                   cpu_count, chunks, max_workers, num_threads, work_queue,
                   running, next_future, texts, segments, result, response,
                   recog_calls, unit_outcomes, completed>>
    /\ UNCHANGED <<streamVars, multiVars>>

\* process_audio_chunk of chunk i has written and read back the WAV file
\* and calls recognize_google.
WorkerCalls ==
    /\ request = "upload"
    /\ \E i \in running :
        /\ futures[i].state = "running"
        /\ ~Called(i)
        /\ recog_calls' = Append(recog_calls, i)
    /\ UNCHANGED <<request, pc, total_duration_ms, chunk_duration_ms,
                   cpu_count, chunks, max_workers, num_threads, work_queue,
                   running, futures, next_future, texts, segments, result,
                   response, unit_outcomes, completed>>
    /\ UNCHANGED <<streamVars, multiVars>>

\* The recognize_google call of chunk i ends; process_audio_chunk returns
\* and the worker sets the future.
WorkerFinishes ==
    /\ request = "upload"
    /\ \E i \in {k \in running : Called(k)}, out \in Outcomes :
        IF RetryOn(out)
        THEN \* recognize_google is called again for the same chunk
             /\ recog_calls' = Append(recog_calls, i)
             /\ UNCHANGED <<running, futures, unit_outcomes, completed>>
        ELSE /\ running' = running \ {i}
             /\ futures' = [futures EXCEPT ![i] = ChunkResult(out)]
             /\ unit_outcomes' = Append(unit_outcomes, [unit |-> i, out |-> out])
             /\ completed' = Append(completed, i)
             /\ UNCHANGED recog_calls
    /\ UNCHANGED <<request, pc, total_duration_ms, chunk_duration_ms,
                   cpu_count, chunks, max_workers, num_threads, work_queue,
                   next_future, texts, segments, result, response>>
    /\ UNCHANGED <<streamVars, multiVars>>

\* One iteration of the gathering loop: future.result() of the next future,
\* once that future is set.
Gather ==
    /\ request = "upload"
    /\ pc = "gather"
    /\ next_future < Len(futures)
    /\ LET i == NextToGather(next_future, completed)
       IN /\ i \in 1..Len(futures)
          /\ FutureDone(futures[i])
          /\ texts' = IF futures[i].state = "returned" /\ KeepText(futures[i].text)
                      THEN Append(texts, futures[i].text)
                      ELSE texts
          /\ next_future' = next_future + 1
    /\ UNCHANGED <<request, pc, total_duration_ms, chunk_duration_ms,
                   cpu_count, chunks, max_workers, num_threads, work_queue,
                   running, futures, segments, result, response, recog_calls,
                   unit_outcomes, completed>>
    /\ UNCHANGED <<streamVars, multiVars>>

\* After the loop: process_file returns the joined texts and upload_file
\* answers {"text": ...}.
ReturnJoined ==
    /\ request = "upload"
    /\ pc = "gather"
    /\ next_future = Len(futures)
    /\ result' = [kind |-> "returned", text |-> Join(texts)]
    /\ response' = [kind |-> "text", text |-> Join(texts)]
    /\ pc' = "done"
    /\ UNCHANGED <<request, total_duration_ms, chunk_duration_ms, cpu_count,
                   chunks, max_workers, num_threads, work_queue, running,
                   futures, next_future, texts, segments, recog_calls,
                   unit_outcomes, completed>>
    /\ UNCHANGED <<streamVars, multiVars>>

\* ------------------------- process_audio_with_silence_detection, extract_audio

\* extract_audio has extracted the audio and split_on_silence returned segs.
ExtractInit(segs) ==
    /\ request = "extract"
    /\ pc = "segments"
    /\ total_duration_ms = 0
    /\ chunk_duration_ms = 0
    /\ cpu_count = 0
    /\ chunks = <<>>
    /\ max_workers = 0
    /\ num_threads = 0
    /\ work_queue = <<>>
    /\ running = {}
    /\ futures = <<>>
    /\ next_future = 0
    /\ texts = <<>>
    /\ segments = segs
    /\ result = NoResult
    /\ response = NoResult
    /\ recog_calls = <<>>
    /\ unit_outcomes = <<>>
    /\ completed = <<>>

\* The segment loop skipping no segment.
TooShortNever(ms) == FALSE

\* The segment loop's `if len(chunk) < 500: continue`.
TooShort(ms) == ms < min_segment_ms

\* extract_audio's `if not text: raise`.
EmptyTextRaises(text) == text = ""

\* One iteration of the segment loop: a short segment is skipped, any other
\* is recognized; a text is appended to full_text, UnknownValueError and
\* RequestError are skipped, any other exception leaves the function and
\* extract_audio raises.
ProcessSegment ==
    /\ request = "extract"
    /\ pc = "segments"
    /\ next_future < Len(segments)
    /\ LET i == next_future + 1
       IN IF TooShort(segments[i])
          THEN /\ next_future' = i
               /\ UNCHANGED <<pc, texts, result, response, recog_calls,
                              unit_outcomes, completed>>
          ELSE \E out \in Outcomes :
                /\ recog_calls' = Append(recog_calls, i)
                /\ unit_outcomes' = Append(unit_outcomes, [unit |-> i, out |-> out])
                /\ completed' = Append(completed, i)
                /\ CASE out.kind = "text" ->
                          /\ texts' = Append(texts, out.text)
                          /\ next_future' = i
                          /\ UNCHANGED <<pc, result, response>>
                     [] out.kind \in {"unknown_value", "request_error"} ->
                          /\ next_future' = i
                          /\ UNCHANGED <<pc, texts, result, response>>
                     [] OTHER ->
                          /\ pc' = "done"
                          /\ result' = [kind |-> "raised", text |-> ""]
                          /\ response' = [kind |-> "raised", text |-> ""]
                          /\ UNCHANGED <<next_future, texts>>
    /\ UNCHANGED <<request, total_duration_ms, chunk_duration_ms, cpu_count,
                   chunks, max_workers, num_threads, work_queue, running,
                   futures, segments>>
    /\ UNCHANGED <<streamVars, multiVars>>

\* After the loop: the function returns the joined texts; extract_audio
\* raises when the text is empty and answers {"text": ...} otherwise.
ReturnSegments ==
    /\ request = "extract"
    /\ pc = "segments"
    /\ next_future = Len(segments)
    /\ result' = [kind |-> "returned", text |-> Join(texts)]
    /\ response' = IF EmptyTextRaises(Join(texts))
                   THEN [kind |-> "raised", text |-> ""]
                   ELSE [kind |-> "text", text |-> Join(texts)]
    /\ pc' = "done"
    /\ UNCHANGED <<request, total_duration_ms, chunk_duration_ms, cpu_count,
                   chunks, max_workers, num_threads, work_queue, running,
                   futures, next_future, texts, segments, recog_calls,
                   unit_outcomes, completed>>
    /\ UNCHANGED <<streamVars, multiVars>>

\* No live connection is open.
NoStream ==
    /\ StreamInit
    /\ NoConnections

\* Sequences over S of length at most n.
SeqsUpTo(S, n) == UNION {[1..k -> S] : k \in 0..n}

BatchInit ==
    /\ NoStream
    /\ \/ \E total \in TotalDurations, duration \in ChunkDurations,
             cpu \in 1..MaxCpu :
            /\ RangeLen(total, duration - overlap_ms) <= MaxChunks
            /\ UploadInit(total, duration, cpu)
       \/ \E segs \in SeqsUpTo(SegmentDurations, MaxSegments) : ExtractInit(segs)

BatchNext ==
    \/ SplitIntoChunks
    \/ Submit
    \/ WorkerStarts
    \/ WorkerRuns
    \/ WorkerCalls
    \/ WorkerFinishes
    \/ Gather
    \/ ReturnJoined
    \/ ProcessSegment
    \/ ReturnSegments

BatchSpec == BatchInit /\ [][BatchNext]_vars

\* ------------------------------------------------------- the chunker alone

\* Inputs of the chunking loop.
ChunkerTotals == {0, 1, 999, 1000, 1001, 2999, 3000, 3001, 27999, 28000,
                  28001, 30000, 56000, 56001, 60000}
ChunkerDurations == {2001, 2500, 3000, 4000, 30000, 40000}

ChunkerInit ==
    /\ NoStream
    /\ \E total \in ChunkerTotals, duration \in ChunkerDurations :
        /\ RangeLen(total, duration - overlap_ms) <= MaxWindows
        /\ UploadInit(total, duration, 1)

\* The chunking loop of process_file alone.
CutChunks ==
    /\ request = "upload"
    /\ pc = "split"
    /\ ~RangeRaises(chunk_duration_ms - overlap_ms)
    /\ chunks' = Windows(total_duration_ms, chunk_duration_ms)
    /\ pc' = "cut"
    /\ UNCHANGED <<request, total_duration_ms, chunk_duration_ms, cpu_count,
                   max_workers, num_threads, work_queue, running, futures,
                   next_future, texts, segments, result, response, recog_calls,
                   unit_outcomes, completed>>
    /\ UNCHANGED <<streamVars, multiVars>>

ChunkerSpec == ChunkerInit /\ [][CutChunks]_vars

\* ------------------------------------------------------------ batch claims

\* The recognition outcome of unit i of the request.
OutcomeOf(i) ==
    (CHOOSE e \in {unit_outcomes[j] : j \in 1..Len(unit_outcomes)} : e.unit = i).out

\* Unit i's recognition was called and has ended.
HasOutcome(i) == \E j \in 1..Len(unit_outcomes) : unit_outcomes[j].unit = i

\* The texts recognized for units 1..n, in ascending unit order, leaving
\* out the units that failed or yielded the empty text.
RECURSIVE TextsInIndexOrder(_)
TextsInIndexOrder(n) ==
    IF n = 0 THEN <<>>
    ELSE LET o == OutcomeOf(n)
         IN IF o.kind = "text" /\ o.text # ""
            THEN Append(TextsInIndexOrder(n - 1), o.text)
            ELSE TextsInIndexOrder(n - 1)

\* ts with exactly one space between neighbours, built from the right.
RECURSIVE SingleSpaced(_)
SingleSpaced(ts) ==
    IF ts = <<>> THEN ""
    ELSE IF Len(ts) = 1 THEN ts[1]
    ELSE SingleSpaced(SubSeq(ts, 1, Len(ts) - 1)) \o " " \o ts[Len(ts)]

\* process_file has returned to upload_file.
UploadReturned ==
    request = "upload" /\ pc = "done" /\ result.kind = "returned"

\* C5: for every signal length and every chunk duration above overlap_ms,
\* window k starts at k*(duration - overlap) and ends at
\* min(start + duration, length); starts strictly increase, no window
\* passes the end of the signal, and every millisecond is in some window.
C5_WindowsCoverSignal ==
    (request = "upload" /\ pc = "cut" /\ chunk_duration_ms > overlap_ms) =>
        LET step == chunk_duration_ms - overlap_ms
        IN /\ \A k \in 1..Len(chunks) :
                /\ chunks[k].start = (k - 1) * step
                /\ chunks[k].end =
                     Min(chunks[k].start + chunk_duration_ms, total_duration_ms)
                /\ chunks[k].end <= total_duration_ms
           /\ \A k \in 1..Len(chunks) - 1 : chunks[k].start < chunks[k + 1].start
           /\ \A t \in 0..total_duration_ms - 1 :
                \E k \in 1..Len(chunks) : chunks[k].start <= t /\ t < chunks[k].end

\* C5 witness: a 60000 ms signal cut with the defaults into three windows,
\* the last one truncated.
C5_Witness ==
    /\ pc = "cut"
    /\ total_duration_ms = 60000
    /\ chunk_duration_ms = 30000
    /\ Len(chunks) = 3
    /\ chunks[3] = [start |-> 56000, end |-> 60000]

\* C6: whatever the order in which the recognition calls complete, the
\* joined text holds the chunks' texts in ascending chunk order.
C6_JoinedInIndexOrder ==
    UploadReturned =>
        /\ texts = TextsInIndexOrder(Len(chunks))
        /\ result.text = Join(TextsInIndexOrder(Len(chunks)))

\* C6 witness: three chunks completed in the order 3, 1, 2 and the joined
\* text is in the order 1, 2, 3.
C6_Witness ==
    /\ UploadReturned
    /\ completed = <<3, 1, 2>>
    /\ OutcomeOf(1).text = "a"
    /\ OutcomeOf(2).text = "b"
    /\ OutcomeOf(3).text = "a"
    /\ result.text = "a b a"

\* C7: a chunk that reports no speech or a service error does not abort
\* the batch: once the executor exists process_file returns, every chunk
\* has been recognized, the failed chunks contribute nothing and the other
\* texts are joined with exactly one space between them.
C7_FailureIsolated ==
    (request = "upload" /\ pc = "done" /\ futures # <<>>) =>
        /\ result.kind = "returned"
        /\ \A i \in 1..Len(chunks) :
             Cardinality({j \in 1..Len(recog_calls) : recog_calls[j] = i}) = 1
        /\ \A i \in 1..Len(chunks) : HasOutcome(i)
        /\ result.text = SingleSpaced(TextsInIndexOrder(Len(chunks)))
        /\ response = [kind |-> "text", text |-> result.text]

\* C7 witness: of three chunks the second reported a service error and the
\* others were recognized.
C7_Witness ==
    /\ UploadReturned
    /\ Len(chunks) = 3
    /\ OutcomeOf(1) = [kind |-> "text", text |-> "a"]
    /\ OutcomeOf(2).kind = "request_error"
    /\ OutcomeOf(3) = [kind |-> "text", text |-> "b"]
    /\ result.text = "a b"

\* Every unit of the request was recognized and reported no speech or a
\* service error.
AllUnitsFailed ==
    /\ Len(unit_outcomes) >= 1
    /\ \A j \in 1..Len(unit_outcomes) :
         unit_outcomes[j].out.kind \in {"unknown_value", "request_error"}

\* C8: when every chunk or segment of a batch reports a service error or
\* no speech, the request ends without a hard failure reaching the caller.
C8_EmptyBatchNotFatal ==
    (pc = "done" /\ AllUnitsFailed) => response.kind = "text"

\* C9: a chunk duration not above the overlap makes process_file fail: it
\* raises, no chunk is produced and no recognition call is made.
C9_BadConfigRejected ==
    (request = "upload" /\ pc # "split" /\ chunk_duration_ms <= overlap_ms) =>
        /\ pc = "done"
        /\ result.kind = "raised"
        /\ chunks = <<>>
        /\ futures = <<>>
        /\ recog_calls = <<>>

\* C9 witness: a request with a chunk duration below the overlap on a
\* 30 s file has ended by raising.
C9_Witness ==
    /\ request = "upload"
    /\ chunk_duration_ms = 1500
    /\ total_duration_ms = 30000
    /\ pc = "done"
    /\ result.kind = "raised"

\* C10: the number of recognition calls in flight never exceeds the
\* smaller of os.cpu_count() and the number of chunks.
C10_InFlightBounded ==
    request = "upload" =>
        Cardinality(running) <= Min(cpu_count, Len(chunks))

\* C10 witness: with two CPUs and three chunks, two calls are in flight
\* and the third chunk waits in the queue.
C10_Witness ==
    /\ cpu_count = 2
    /\ Len(chunks) = 3
    /\ Cardinality(running) = 2
    /\ work_queue = <<3>>

\* ------------------------------------------------- live claims, continued

\* The outcome of the recognition call of an emission step.
StepOutcome == outcomes'[Len(outcomes')]

\* A recognition failure: no speech detected, or the service unavailable.
RecognitionFailed(out) == out.kind \in {"unknown_value", "request_error"}

\* C11: a recognition failure on a live chunk does not tear down the
\* stream: the connection stays open, the buffer makes its normal
\* post-emission transition to the trailing context_samples samples, and
\* last_text keeps its value for the chunks that follow.
C11_FailureKeepsStream ==
    [][(EmissionStep /\ RecognitionFailed(StepOutcome)) =>
        /\ conn' = "open"
        /\ samples_collected' = context_samples
        /\ IsTailOf(Concatenate(buffer'), recognized'[Len(recognized')],
                    context_samples)
        /\ last_text' = last_text
    ]_vars

\* C11 witness: the first chunk's recognition failed with a service error,
\* the loop went on receiving and the second chunk's text was sent.
C11_Witness ==
    /\ Len(outcomes) = 2
    /\ outcomes[1].kind = "request_error"
    /\ outcomes[2] = [kind |-> "text", text |-> "a"]
    /\ sent = <<TextEvent("a")>>
    /\ conn = "open"

\* C12 as stated: every emitted chunk results in an event sent to the
\* client, a text event or an error event.
C12_EveryChunkHasEvent ==
    [][EmissionStep => Len(sent') = Len(sent) + 1]_vars

\* C12 as amended: an emitted chunk results in at most one event, which is
\* a text event; a chunk whose recognition fails (no speech, service
\* unavailable or any other exception) results in no event at all; an
\* error event is sent only when the receive loop itself fails, and the
\* loop breaks once it is sent: nothing more is received or sent.
C12_FailedChunkIsSilent ==
    [][/\ EmissionStep =>
            /\ \/ sent' = sent
               \/ /\ Len(sent') = Len(sent) + 1
                  /\ sent'[Len(sent')].kind = "text"
                  /\ SubSeq(sent', 1, Len(sent)) = sent
            /\ StepOutcome.kind # "text" => sent' = sent
       /\ (Len(sent') = Len(sent) + 1 /\ sent'[Len(sent')].kind = "error") =>
            /\ ~EmissionStep
            /\ conn' = "failing"
       /\ conn = "failing" => (conn' # "open" /\ sent' = sent)
    ]_vars

\* C12 witness: two chunks were emitted, the first failed with a service
\* error and nothing was sent for it; the loop then failed on a message of
\* odd length and sent the only error event.
C12_Witness ==
    /\ Len(outcomes) = 2
    /\ outcomes[1].kind = "request_error"
    /\ outcomes[2].kind = "unknown_value"
    /\ sent = <<ErrorEvent>>
    /\ conn = "closed"

\* The text events among the messages sent.
TextEventsSent == SelectSeq(sent, LAMBDA m : m.kind = "text")

\* C15: last_text is the text of the most recent text event (empty before
\* the first), no history; no text event is empty and no two consecutive
\* text events are equal, so a text repeated after a failed or empty chunk
\* is sent once, and a text that returns after another one is sent again.
C15_LastTextIsLastEmitted ==
    LET ev == TextEventsSent
    IN /\ last_text = IF ev = <<>> THEN "" ELSE ev[Len(ev)].text
       /\ \A i \in 1..Len(ev) : ev[i].text # ""
       /\ \A i \in 1..Len(ev) - 1 : ev[i].text # ev[i + 1].text

\* C15 witness: the recognitions were "a", no speech, "a", and "a" was
\* sent once.
C15_Witness ==
    /\ Len(outcomes) = 3
    /\ outcomes[1] = [kind |-> "text", text |-> "a"]
    /\ outcomes[2].kind = "unknown_value"
    /\ outcomes[3] = [kind |-> "text", text |-> "a"]
    /\ sent = <<TextEvent("a")>>

\* C15, second case: the recognitions were "a", "b", "a", all three sent.
C15_ReturningTextSent ==
    /\ Len(outcomes) = 3
    /\ sent = <<TextEvent("a"), TextEvent("b"), TextEvent("a")>>

\* The message whose arrival made chunk k be emitted: the block of the
\* chunk's last sample.
EmissionBlock(k) == recognized[k][Len(recognized[k])].blk

\* Every sample of the messages from..to, in arrival order.
RECURSIVE BlocksBetween(_, _, _)
BlocksBetween(rcv, from, to) ==
    IF to < from THEN <<>>
    ELSE BlocksBetween(rcv, from, to - 1) \o FromBuffer(to, rcv[to])

\* The runs of the emitted chunks that lie in message i.
RunsOfBlock(i) ==
    LET all == UNION {{recognized[k][j] : j \in 1..Len(recognized[k])} :
                        k \in 1..Len(recognized)}
    IN {r \in all : r.blk = i}

\* Every sample of message i (of n samples) is in some emitted chunk: the
\* first sample is, and so is the sample after the end of each run that
\* stops short of the message's end.
BlockCovered(i, n) ==
    LET rs == RunsOfBlock(i)
        Held(x) == \E r \in rs : r.lo <= x /\ x < r.hi
    IN n > 0 => /\ Held(0)
                /\ \A r \in rs : r.hi < n => Held(r.hi)

\* C19: the first chunk is the whole stream received up to its emission;
\* every later chunk begins with exactly the last context_samples samples
\* of the chunk before it, followed by every sample received since that
\* emission, in arrival order; every sample received up to an emission is
\* in at least one emitted chunk.
C19_ChunksContinueStream ==
    /\ \A k \in 1..Len(recognized) :
         LET c == recognized[k]
         IN IF k = 1
            THEN c = StreamOf(received, EmissionBlock(1))
            ELSE \E j \in 0..Len(c) :
                   /\ IsTailOf(SubSeq(c, 1, j), recognized[k - 1], context_samples)
                   /\ SubSeq(c, j + 1, Len(c)) =
                        BlocksBetween(received, EmissionBlock(k - 1) + 1,
                                      EmissionBlock(k))
    /\ recognized # <<>> =>
         \A i \in 1..EmissionBlock(Len(recognized)) :
            BlockCovered(i, received[i] \div sampwidth)

\* C19 witness: the second chunk begins in the middle of a message, with
\* the last 40000 samples of a first chunk of 100000, and goes on with the
\* 4000 and 80000 samples of the next two messages.
C19_Witness ==
    /\ Len(recognized) = 2
    /\ recognized[2] = <<[blk |-> 1, lo |-> 60000, hi |-> 100000],
                         [blk |-> 2, lo |-> 0, hi |-> 4000],
                         [blk |-> 3, lo |-> 0, hi |-> 80000]>>

\* ============================================ the live path in two steps
\* The receive loop as in Spec, with the recognition call of a chunk taking
\* time: the call begins in BlockArrives and ends in RecognitionReturns.

\* Recognition calls of the connection that have begun and not ended.
InFlight == Len(recognized) - Len(outcomes)

\* The receive loop awaiting the next message while a recognition call is
\* in flight.
LoopNeverWaits(inflight) == FALSE

\* add_audio is called synchronously from the receive loop, and calls
\* recognize_google synchronously: the loop does not reach receive_bytes
\* again before the call has ended.
LoopWaitsForRecognition(inflight) == inflight > 0

\* receive_bytes returns a message of nbytes bytes; add_audio appends it
\* and, with enough audio, _process_buffer begins the recognition call.
BlockArrives ==
    /\ conn = "open"
    /\ chunks_received < MaxBlocks
    /\ ~LoopWaitsForRecognition(InFlight)
    /\ \E nbytes \in BlockBytes :
        /\ chunks_received' = chunks_received + 1
        /\ received' = Append(received, nbytes)
        /\ IF FromBufferRaises(nbytes)
           THEN /\ sent' = Append(sent, ErrorEvent)
                /\ conn' = "failing"
                /\ UNCHANGED <<buffer, samples_collected, chunk_count, recognized>>
           ELSE LET chunk == FromBuffer(chunks_received + 1, nbytes)
                    buf   == Append(buffer, chunk)
                    count == samples_collected + ArrayLen(chunk)
                IN /\ buffer' = buf
                   /\ samples_collected' = count
                   /\ IF EnoughAudio(count)
                      THEN /\ chunk_count' = chunk_count + 1
                           /\ recognized' = Append(recognized, Concatenate(buf))
                      ELSE UNCHANGED <<chunk_count, recognized>>
                   /\ UNCHANGED <<sent, conn>>
    /\ UNCHANGED <<last_text, outcomes>>
    /\ UNCHANGED <<batchVars, multiVars>>

\* The recognition call in flight ends with outcome out: the rest of
\* _process_buffer (dedup, the finally clause) and the loop's send_text.
RecognitionReturns ==
    /\ InFlight > 0
    /\ \E out \in Outcomes :
        /\ outcomes' = Append(outcomes, out)
        /\ last_text' = NewLastText(out, last_text)
        /\ buffer' = KeptBuffer(buffer, samples_collected)
        /\ samples_collected' = KeptCount(buffer, samples_collected)
        /\ IF ProcessBufferRaises(out)
           THEN /\ sent' = Append(sent, ErrorEvent)
                /\ conn' = "failing"
           ELSE /\ sent' = IF ProcessResult(out, last_text) # ""
                           THEN Append(sent, TextEvent(ProcessResult(out, last_text)))
                           ELSE sent
                /\ conn' = conn
    /\ UNCHANGED <<chunk_count, chunks_received, received, recognized>>
    /\ UNCHANGED <<batchVars, multiVars>>

\* While no recognition call is in flight, receive_bytes raises, or the
\* send_text of a text raises: the loop sends an error event.
ReceiveRaises ==
    /\ ~LoopWaitsForRecognition(InFlight)
    /\ ReceiveFails

StepNext ==
    \/ BlockArrives
    \/ RecognitionReturns
    \/ ReceiveRaises
    \/ LoopBreaks

StepSpec == Init /\ [][StepNext]_vars

\* last_text after the outcomes 1..n applied one after the other.
RECURSIVE LastTextAfter(_, _)
LastTextAfter(outs, n) ==
    IF n = 0 THEN ""
    ELSE LET before == LastTextAfter(outs, n - 1)
             o == outs[n]
         IN IF o.kind = "text" /\ o.text # "" /\ o.text # before
            THEN o.text ELSE before

\* C13: on a connection at most one recognition call is in flight, so the
\* call of chunk k+1 begins only after the result of chunk k has been
\* applied, and last_text is the result of applying the outcomes in chunk
\* emission order.
C13_OneRecognitionAtATime ==
    /\ InFlight \in {0, 1}
    /\ last_text = LastTextAfter(outcomes, Len(outcomes))

\* C13 witness: the second chunk's recognition is in flight, after the
\* first chunk's text "a" was applied and sent.
C13_Witness ==
    /\ Len(recognized) = 2
    /\ outcomes = <<[kind |-> "text", text |-> "a"]>>
    /\ last_text = "a"
    /\ sent = <<TextEvent("a")>>

\* ------------------------------------------------ batch claims, continued

\* The worker threads are scheduled and every recognition call ends: a
\* step that can be taken is eventually taken.
FairBatchSpec == BatchSpec /\ WF_vars(BatchNext)

\* C16: process_file returns only after the recognition call of every
\* dispatched chunk has ended (none is left queued or running), and, every
\* recognition call ending, the request eventually ends.
C16_JoinBarrier ==
    /\ [](UploadReturned =>
            /\ running = {}
            /\ work_queue = <<>>
            /\ Len(futures) = Len(chunks)
            /\ \A i \in 1..Len(chunks) :
                 /\ futures[i].state \in {"returned", "raised"}
                 /\ HasOutcome(i))
    /\ <>(pc = "done")

\* C16 witness: with one CPU, three chunks were recognized one after the
\* other and process_file returned after the third.
C16_Witness ==
    /\ UploadReturned
    /\ cpu_count = 1
    /\ Len(chunks) = 3
    /\ completed = <<1, 2, 3>>

\* C18: recognize_google is called at most once per chunk whatever the
\* outcome, each chunk is submitted once, and when process_file returns
\* the number of recognition calls equals the number of chunks.
C18_OneCallPerChunk ==
    request = "upload" =>
        /\ \A i \in 1..Len(chunks) :
             Cardinality({j \in 1..Len(recog_calls) : recog_calls[j] = i}) <= 1
        /\ Len(futures) <= Len(chunks)
        /\ Len(recog_calls) + Cardinality({i \in running : ~Called(i)})
              + Len(work_queue) = Len(futures)
        /\ UploadReturned => Len(recog_calls) = Len(chunks)

\* C18 witness: three chunks, whose calls ended with a service error, no
\* speech and a text, made three recognition calls.
C18_Witness ==
    /\ UploadReturned
    /\ Len(chunks) = 3
    /\ Len(recog_calls) = 3
    /\ OutcomeOf(1).kind = "request_error"
    /\ OutcomeOf(2).kind = "unknown_value"
    /\ OutcomeOf(3).kind = "text"

\* C20: for a zero-duration signal process_file cuts no chunk, makes no
\* recognition call and returns the empty text instead of raising.
C20_EmptySignalReturnsEmpty ==
    (request = "upload" /\ pc = "done" /\ total_duration_ms = 0
        /\ chunk_duration_ms > overlap_ms) =>
        /\ chunks = <<>>
        /\ recog_calls = <<>>
        /\ result = [kind |-> "returned", text |-> ""]

\* ======================================================= silence segmenter
\* split_on_silence as process_audio_with_silence_detection calls it, on
\* signals made of cells of CellMs ms that are each loud (above the silence
\* threshold in every window that touches them) or quiet.

\* Length of a cell of the explored signals, in ms.
CellMs == 250
\* The explored signals have at most MaxCells cells.
MaxCells == 7

\* min_silence_len of the split_on_silence call
min_silence_len == 1000
\* keep_silence of the split_on_silence call
keep_silence == 500

\* The 10 s signal with a silent gap from second 4 to second 7.
ScenarioSignal ==
    [i \in 1..(10000 \div CellMs) |->
        IF (i - 1) * CellMs >= 4000 /\ i * CellMs <= 7000 THEN "quiet" ELSE "loud"]

Max(a, b) == IF a >= b THEN a ELSE b

\* Cell i lies in a run of quiet cells of at least min_silence_len ms: the
\* silent ranges split_on_silence detects.
InSilence(sig, i) ==
    /\ sig[i] = "quiet"
    /\ \E a \in 1..i, b \in i..Len(sig) :
         /\ \A j \in a..b : sig[j] = "quiet"
         /\ (b - a + 1) * CellMs >= min_silence_len

\* The ranges [start, end) in ms between the silent ranges from cell i on,
\* in order: the maximal runs of cells outside the silent ranges.
RECURSIVE RangesBetweenSilence(_, _)
RangesBetweenSilence(sig, i) ==
    IF i > Len(sig) THEN <<>>
    ELSE IF InSilence(sig, i) THEN RangesBetweenSilence(sig, i + 1)
    ELSE LET stop == CHOOSE b \in i..Len(sig) :
                        /\ \A j \in i..b : ~InSilence(sig, j)
                        /\ (b = Len(sig) \/ InSilence(sig, b + 1))
         IN <<[start |-> (i - 1) * CellMs, end |-> stop * CellMs]>>
              \o RangesBetweenSilence(sig, stop + 1)

\* The non-silent ranges of the signal: the whole signal, even an empty
\* one, when it has no silent range, the ranges between the silent ranges
\* otherwise.
DetectNonsilent(sig) ==
    IF \A i \in 1..Len(sig) : ~InSilence(sig, i)
    THEN <<[start |-> 0, end |-> Len(sig) * CellMs]>>
    ELSE RangesBetweenSilence(sig, 1)

\* split_on_silence: every non-silent range is widened by keep_silence on
\* both sides, two widened ranges that overlap meet in the middle, and the
\* ranges are cut to the signal.
SplitOnSilence(sig) ==
    LET ns == DetectNonsilent(sig)
        total == Len(sig) * CellMs
        pad == [k \in 1..Len(ns) |->
                  [start |-> ns[k].start - keep_silence,
                   end |-> ns[k].end + keep_silence]]
        from(k) == IF k > 1 /\ pad[k].start < pad[k - 1].end
                   THEN (pad[k - 1].end + pad[k].start) \div 2
                   ELSE pad[k].start
        upto(k) == IF k < Len(ns) /\ pad[k + 1].start < pad[k].end
                   THEN (pad[k].end + pad[k + 1].start) \div 2
                   ELSE pad[k].end
    IN [k \in 1..Len(ns) |->
          [start |-> Max(from(k), 0), end |-> Min(upto(k), total)]]

\* extract_audio has extracted the signal sig and split_on_silence has cut
\* it: chunks are the ranges cut, segments their lengths.
SegmenterInitOn(sig) ==
    LET cut == SplitOnSilence(sig)
    IN /\ request = "extract"
       /\ pc = "segments"
       /\ total_duration_ms = Len(sig) * CellMs
       /\ chunk_duration_ms = 0
       /\ cpu_count = 0
       /\ chunks = cut
       /\ max_workers = 0
       /\ num_threads = 0
       /\ work_queue = <<>>
       /\ running = {}
       /\ futures = <<>>
       /\ next_future = 0
       /\ texts = <<>>
       /\ segments = [k \in 1..Len(cut) |-> cut[k].end - cut[k].start]
       /\ result = NoResult
       /\ response = NoResult
       /\ recog_calls = <<>>
       /\ unit_outcomes = <<>>
       /\ completed = <<>>

SegmenterInit ==
    /\ NoStream
    /\ \E sig \in SeqsUpTo({"loud", "quiet"}, MaxCells) \cup {ScenarioSignal} :
         SegmenterInitOn(sig)

SegmenterNext ==
    \/ ProcessSegment
    \/ ReturnSegments

SegmenterSpec == SegmenterInit /\ [][SegmenterNext]_vars

\* C14: the segments dispatched for recognition are in the order of their
\* start offsets, no two of them overlap, and each is at least
\* min_segment_ms long; a shorter segment is dropped and never recognized,
\* every other segment the loop has passed was recognized.
C14_SegmentsOrderedDisjoint ==
    request = "extract" =>
        /\ \A a \in 1..Len(recog_calls) :
             chunks[recog_calls[a]].end - chunks[recog_calls[a]].start
                >= min_segment_ms
        /\ \A a, b \in 1..Len(recog_calls) :
             a < b =>
                /\ chunks[recog_calls[a]].start < chunks[recog_calls[b]].start
                /\ chunks[recog_calls[a]].end <= chunks[recog_calls[b]].start
        /\ \A i \in 1..next_future :
             (\E a \in 1..Len(recog_calls) : recog_calls[a] = i)
                <=> chunks[i].end - chunks[i].start >= min_segment_ms

\* C14 witness: the 10 s signal with the gap from 4 s to 7 s was cut into
\* [0, 4.5 s) and [6.5 s, 10 s), and both segments were recognized.
C14_Witness ==
    /\ total_duration_ms = 10000
    /\ chunks = <<[start |-> 0, end |-> 4500], [start |-> 6500, end |-> 10000]>>
    /\ recog_calls = <<1, 2>>
    /\ pc = "done"

\* C14, second case: a signal shorter than min_segment_ms was cut into one
\* segment, which was dropped without a recognition call.
C14_ShortSegmentDropped ==
    /\ request = "extract"
    /\ Len(chunks) = 1
    /\ segments[1] < min_segment_ms
    /\ next_future = 1
    /\ recog_calls = <<>>

\* ================================================== several connections
\* websocket_endpoint running for several clients at once.  A handler runs
\* from one await to the next without interruption (add_audio and the
\* recognition call are synchronous), so one loop iteration of one
\* connection is one step.

\* Every connection receives at most MaxConnBlocks messages.
MaxConnBlocks == 2

\* The message sizes and recognition outcomes explored on each connection.
ConnBlockBytes == {7999, 80000, 160000}
ConnOutcomes == {o \in Outcomes : o.kind \in {"text", "exception"} /\ o.text \in {"", "a"}}

\* All connections sharing one AudioProcessor object.
ProcessorShared(c) == 1

\* `processor = AudioProcessor(language)` is a local of the endpoint call:
\* every connection has an object of its own.
ProcessorOf(c) == c

\* The number of the block that is message n of connection c.
BlockOf(c, n) == (c - 1) * MaxConnBlocks + n

\* A client connects: the endpoint accepts and constructs its processor.
Open(c) ==
    /\ ~live[c]
    /\ conn_sent[c] = <<>>
    /\ live' = [live EXCEPT ![c] = TRUE]
    /\ processors' = [processors EXCEPT ![ProcessorOf(c)] = NewProcessor]
    /\ acting' = c
    /\ UNCHANGED <<breaking, conn_received, conn_sent>>
    /\ UNCHANGED <<streamVars, batchVars>>

\* One iteration of connection c's receive loop on a message of nbytes
\* bytes, with recognition outcome out if the buffer is processed.
ConnReceive(c, nbytes, out) ==
    LET pr == processors[ProcessorOf(c)]
    IN
    /\ live[c]
    /\ ~breaking[c]
    /\ conn_received[c] < MaxConnBlocks
    /\ live' = live
    /\ conn_received' = [conn_received EXCEPT ![c] = @ + 1]
    /\ acting' = c
    /\ IF FromBufferRaises(nbytes)
       THEN /\ conn_sent' = [conn_sent EXCEPT ![c] = Append(@, ErrorEvent)]
            /\ breaking' = [breaking EXCEPT ![c] = TRUE]
            /\ UNCHANGED processors
       ELSE LET chunk == FromBuffer(BlockOf(c, conn_received[c] + 1), nbytes)
                buf   == Append(pr.buffer, chunk)
                count == pr.samples_collected + ArrayLen(chunk)
            IN IF EnoughAudio(count)
               THEN /\ processors' =
                         [processors EXCEPT ![ProcessorOf(c)] =
                            [buffer |-> KeptBuffer(buf, count),
                             samples_collected |-> KeptCount(buf, count),
                             last_text |-> NewLastText(out, pr.last_text),
                             chunk_count |-> pr.chunk_count + 1]]
                    /\ IF ProcessBufferRaises(out)
                       THEN /\ conn_sent' = [conn_sent EXCEPT ![c] = Append(@, ErrorEvent)]
                            /\ breaking' = [breaking EXCEPT ![c] = TRUE]
                       ELSE /\ conn_sent' =
                                 [conn_sent EXCEPT ![c] =
                                    IF ProcessResult(out, pr.last_text) # ""
                                    THEN Append(@, TextEvent(ProcessResult(out, pr.last_text)))
                                    ELSE @]
                            /\ breaking' = breaking
               ELSE /\ processors' =
                         [processors EXCEPT ![ProcessorOf(c)] =
                            [pr EXCEPT !.buffer = buf, !.samples_collected = count]]
                    /\ UNCHANGED <<conn_sent, breaking>>
    /\ UNCHANGED <<streamVars, batchVars>>

\* Connection c's client goes away: receive_bytes raises and the loop
\* sends the error event.
ConnCloses(c) ==
    /\ live[c]
    /\ ~breaking[c]
    /\ conn_sent' = [conn_sent EXCEPT ![c] = Append(@, ErrorEvent)]
    /\ breaking' = [breaking EXCEPT ![c] = TRUE]
    /\ acting' = c
    /\ UNCHANGED <<processors, live, conn_received>>
    /\ UNCHANGED <<streamVars, batchVars>>

\* The await of connection c's error send_text returns or raises: the loop
\* breaks and the endpoint call ends.
ConnBreaks(c) ==
    /\ live[c]
    /\ breaking[c]
    /\ live' = [live EXCEPT ![c] = FALSE]
    /\ breaking' = [breaking EXCEPT ![c] = FALSE]
    /\ acting' = c
    /\ UNCHANGED <<processors, conn_received, conn_sent>>
    /\ UNCHANGED <<streamVars, batchVars>>

ClientConnects == \E c \in Conns : Open(c)

ClientSendsOn ==
    \E c \in Conns, nbytes \in ConnBlockBytes, out \in ConnOutcomes :
        ConnReceive(c, nbytes, out)

ClientLeaves == \E c \in Conns : ConnCloses(c)

HandlerEnds == \E c \in Conns : ConnBreaks(c)

MultiInit == NoStream /\ NoBatch

MultiNext ==
    \/ ClientConnects
    \/ ClientSendsOn
    \/ ClientLeaves
    \/ HandlerEnds

MultiSpec == MultiInit /\ [][MultiNext]_vars

\* What connection c's handler sees as its buffer, sample count and last
\* emitted text.
ViewOf(c) ==
    [buffer |-> processors[ProcessorOf(c)].buffer,
     samples_collected |-> processors[ProcessorOf(c)].samples_collected,
     last_text |-> processors[ProcessorOf(c)].last_text]

FreshView == [buffer |-> <<>>, samples_collected |-> 0, last_text |-> ""]

\* C17: a step of one connection (connect, receive with or without an
\* emission and a recognition result, close) leaves the buffer, the sample
\* count and the last text of every other live connection unchanged, and a
\* connection that has just been opened is below the threshold with an
\* empty buffer and an empty last text.
C17_ConnectionsIsolated ==
    [][\A d \in Conns :
          /\ (live[d] /\ d # acting') => ViewOf(d)' = ViewOf(d)
          /\ (~live[d] /\ live'[d]) =>
                /\ ViewOf(d)' = FreshView
                /\ ~EnoughAudio(ViewOf(d)'.samples_collected)]_vars

\* C17 witness: two connections are live, both have emitted a chunk, and
\* they hold different buffers and different last texts.
C17_Witness ==
    /\ live[1] /\ live[2]
    /\ processors[ProcessorOf(1)].chunk_count = 1
    /\ processors[ProcessorOf(2)].chunk_count = 1
    /\ ViewOf(1).last_text = "a"
    /\ ViewOf(2).last_text = ""
    /\ ViewOf(1).buffer # ViewOf(2).buffer
    /\ ViewOf(1).buffer # <<>>
    /\ acting = 2

====
